---- MODULE Spec2Model ----
(***************************************************************************)
(* EllipsoidGeometry (Source/Core/EllipsoidGeometry.js): the constructor   *)
(* that tessellates a cube into an ellipsoid mesh, with its two helpers    *)
(* addEdgePositions and addFaceTriangles and the module-level scratch      *)
(* Cartesian3 objects they share.                                          *)
(*                                                                         *)
(* Numbers.  A Cartesian3 value is kept exactly as [n |-> <<x,y,z>>, q]    *)
(* and stands for the vector n / sqrt(q); q = 0 stands for (NaN,NaN,NaN).  *)
(* Every value is kept in lowest terms (Canon), so two values are equal    *)
(* exactly when the vectors are.  Floating-point rounding is not modelled. *)
(*                                                                         *)
(* Objects.  Cartesian3 objects live in heap, a function from object ids   *)
(* to values.  Ids 1..9 are the nine module-level scratch objects; the     *)
(* objects a construction allocates get the ids above them.  The position  *)
(* list is a list of object ids, as the JavaScript array is a list of      *)
(* references.                                                             *)
(*                                                                         *)
(* decodeDraco (Source/Workers/decodeDraco.js): decodeDracoPrimitive with  *)
(* decodeIndexArray and decodeAttributeData, and the native Draco objects  *)
(* they create with new draco.X() and release with draco.destroy.          *)
(***************************************************************************)
EXTENDS Integers, Sequences, FiniteSets, TLC

\* ------------------------------------------------------------------ bounds

\* The largest partition count a construction is given.
MaxP == 3

\* The most decodeDracoPrimitive calls a worker is followed through.
MaxCalls == 2

\* The most entries of parameters.compressedAttributes.
MaxAttributes == 1

\* The most faces of a decoded mesh.
MaxFaces == 1

\* ------------------------------------------------------- exact arithmetic

Abs(a) == IF a < 0 THEN 0 - a ELSE a

RECURSIVE Gcd(_, _)
Gcd(a, b) == IF b = 0 THEN a ELSE Gcd(b, a % b)

Gcd3(n) == Gcd(Gcd(Abs(n[1]), Abs(n[2])), Abs(n[3]))

\* The positive square root of a perfect square, 0 when d is none.
Isqrt(d) == IF \E r \in 1..d : r * r = d THEN CHOOSE r \in 1..d : r * r = d ELSE 0

NaNVec == [n |-> <<0, 0, 0>>, q |-> 0]

IsNaN(a) == a.q = 0

\* n / sqrt(q) in lowest terms: the largest g with g | n and g*g | q is divided out.
Canon(n, q) ==
    IF q = 0 THEN NaNVec
    ELSE IF n = <<0, 0, 0>> THEN [n |-> n, q |-> 1]
    ELSE LET G == Gcd3(n)
             ok == {g \in 1..G : G % g = 0 /\ q % (g * g) = 0}
             g == CHOOSE m \in ok : \A k \in ok : k <= m
         IN  [n |-> <<n[1] \div g, n[2] \div g, n[3] \div g>>, q |-> q \div (g * g)]

\* new Cartesian3(x, y, z) with integer components.
Cartesian3(x, y, z) == [n |-> <<x, y, z>>, q |-> 1]

\* Cartesian3.add, on values with rational components (all cube-space values are).
Add(a, b) ==
    LET da == Isqrt(a.q)
        db == Isqrt(b.q)
    IN  IF da = 0 \/ db = 0 THEN NaNVec
        ELSE Canon(<<a.n[1] * db + b.n[1] * da,
                     a.n[2] * db + b.n[2] * da,
                     a.n[3] * db + b.n[3] * da>>, (da * db) * (da * db))

\* Cartesian3.subtract
Subtract(a, b) == Add(a, [n |-> <<0 - b.n[1], 0 - b.n[2], 0 - b.n[3]>>, q |-> b.q])

\* Cartesian3.multiplyByScalar with the scalar num / den, den > 0.
MultiplyByScalar(a, num, den) ==
    IF den = 0 THEN NaNVec
    ELSE Canon(<<a.n[1] * num, a.n[2] * num, a.n[3] * num>>, a.q * den * den)

\* Cartesian3.multiplyComponents
MultiplyComponents(a, b) ==
    Canon(<<a.n[1] * b.n[1], a.n[2] * b.n[2], a.n[3] * b.n[3]>>, a.q * b.q)

\* Cartesian3.normalize: v / |v|; the zero vector gives NaN components (0 / 0).
Normalize(a) ==
    IF IsNaN(a) \/ a.n = <<0, 0, 0>> THEN NaNVec
    ELSE Canon(a.n, a.n[1] * a.n[1] + a.n[2] * a.n[2] + a.n[3] * a.n[3])

\* Cartesian3.cross
Cross(a, b) ==
    Canon(<<a.n[2] * b.n[3] - a.n[3] * b.n[2],
            a.n[3] * b.n[1] - a.n[1] * b.n[3],
            a.n[1] * b.n[2] - a.n[2] * b.n[1]>>, a.q * b.q)

UNIT_Z == Cartesian3(0, 0, 1)

\* ellipsoid.getRadii()
Radii(r) == Cartesian3(r[1], r[2], r[3])

\* ellipsoid.getOneOverRadii(): 1 / radius per component, 0 for a radius of 0.
OneOverRadii(r) ==
    LET nz(k) == IF r[k] = 0 THEN 1 ELSE r[k]
        L == nz(1) * nz(2) * nz(3)
        c(k) == IF r[k] = 0 THEN 0 ELSE L \div r[k]
    IN  Canon(<<c(1), c(2), c(3)>>, L * L)

\* ellipsoid.geodeticSurfaceNormal: normalize(p * oneOverRadiiSquared).
GeodeticSurfaceNormal(r, p) ==
    Normalize(MultiplyComponents(p, MultiplyComponents(OneOverRadii(r), OneOverRadii(r))))

\* One component c / sqrt(q) of a value as a number: sign and the square in lowest terms.
Scalar(a, k) ==
    IF IsNaN(a) THEN [s |-> 0, num |-> 0, den |-> 0]
    ELSE LET c == a.n[k]
             g == Gcd(c * c, a.q)
         IN  IF c = 0 THEN [s |-> 0, num |-> 0, den |-> 1]
             ELSE [s |-> IF c < 0 THEN 0 - 1 ELSE 1, num |-> (c * c) \div g, den |-> a.q \div g]

\* Math.atan2(a.y, a.x): determined by the direction of (x, y).
Atan2(a) ==
    IF IsNaN(a) THEN [f |-> "atan2", y |-> 0, x |-> 0, nan |-> TRUE]
    ELSE LET g == Gcd(Abs(a.n[1]), Abs(a.n[2]))
             d == IF g = 0 THEN 1 ELSE g
         IN  [f |-> "atan2", y |-> a.n[2] \div d, x |-> a.n[1] \div d, nan |-> FALSE]

\* Math.asin(a.z): determined by its argument.
Asin(a) == [f |-> "asin", z |-> Scalar(a, 3)]

\* ------------------------------------------------------------ JS arrays

\* The value of a missing array element.
Undefined == 0 - 1

Max(a, b) == IF a < b THEN b ELSE a

\* A loop turn is written CHOOSE r \in {Loop(v, ...) : v \in {e}} : TRUE, which is
\* Loop(e, ...) with e evaluated to a value first: the turns are evaluated one after
\* the other instead of all at once when the last one is needed.  In the same way
\* \E s \in {e} : ... names the value of e in an action.

\* a[i] = v on a JavaScript array (0-based; the array grows, leaving holes).
ArraySet(a, i, v) ==
    [k \in 1..Max(Len(a), i + 1) |->
        IF k = i + 1 THEN v ELSE IF k <= Len(a) THEN a[k] ELSE Undefined]

\* a[i]
ArrayGet(a, i) == IF i + 1 \in 1..Len(a) THEN a[i + 1] ELSE Undefined

\* a.slice(0).reverse()
Reverse(a) == [k \in 1..Len(a) |-> a[Len(a) + 1 - k]]

\* ------------------------------------------------------------ the heap

sphericalNormal == 1
normal == 2
tangent == 3
binormal == 4
scratchDirection == 5
scratchX == 6
scratchY == 7
scratchOffsetX == 8
scratchOffsetY == 9

ScratchIds == {sphericalNormal, normal, tangent, binormal, scratchDirection,
               scratchX, scratchY, scratchOffsetX, scratchOffsetY}

\* The module is loaded: every scratch object is new Cartesian3(), that is (0, 0, 0).
ScratchInit == [id \in ScratchIds |-> Cartesian3(0, 0, 0)]

\* A working state st is [positions, heap, indices, fresh, stale]:
\* fresh is the set of scratch objects written since the construction began,
\* stale becomes TRUE when a scratch object is read that is not in fresh.

\* The value of object id; a missing element (positions[undefined]) reads as NaN.
Val(st, id) == IF id \in DOMAIN st.heap THEN st.heap[id] ELSE NaNVec

Write(st, id, v) ==
    [st EXCEPT !.heap = IF id \in DOMAIN st.heap THEN [@ EXCEPT ![id] = v] ELSE @ @@ (id :> v),
               !.fresh = @ \cup ({id} \cap ScratchIds)]

\* The id of the next object allocated.
NewId(st) == Cardinality(DOMAIN st.heap) + 1

\* positions[i] (an object id) of a working state.
PositionAt(st, i) == ArrayGet(st.positions, i)

\* positions.push(id)
Push(st, id) == [st EXCEPT !.positions = Append(@, id)]

\* One call of a library function on objects: f(reads..., result), with k what else
\* it is given (a scalar as <<num, den>>, a constant vector, the radii).
Call(f, reads, result, k) == [f |-> f, reads |-> reads, result |-> result, k |-> k]

ReadAll(st, ids) ==
    [st EXCEPT !.stale = @ \/ \E n \in 1..Len(ids) :
                                 ids[n] \in ScratchIds /\ ids[n] \notin st.fresh]

\* What the call computes from the objects it reads.
Result(st, c) ==
    LET a == Val(st, c.reads[1])
    IN  CASE c.f = "add" -> Add(a, Val(st, c.reads[2]))
          [] c.f = "subtract" -> Subtract(a, Val(st, c.reads[2]))
          [] c.f = "multiplyByScalar" -> MultiplyByScalar(a, c.k[1], c.k[2])
          [] c.f = "multiplyComponents" -> MultiplyComponents(a, c.k)
          [] c.f = "normalize" -> Normalize(a)
          [] c.f = "geodeticSurfaceNormal" -> GeodeticSurfaceNormal(c.k, a)
          [] c.f = "crossWith" -> Cross(c.k, a)
          [] c.f = "cross" -> Cross(a, Val(st, c.reads[2]))

\* The call made: its operands are read and its result object is written; "get" is
\* the reading of an object's x, y and z, which writes nothing.
Exec(st, c) ==
    IF c.f = "get" THEN ReadAll(st, c.reads)
    ELSE Write(ReadAll(st, c.reads), c.result, Result(st, c))

\* The calls made one after the other.
RECURSIVE Run(_, _)
Run(st, cs) == IF cs = <<>> THEN st ELSE Run(Exec(st, Head(cs)), Tail(cs))

\* ------------------------------------------------------ addEdgePositions

\* The loop run one turn too far.
EdgeLoopCondInclusive(i, P) == i <= P

\* The loop condition of addEdgePositions: for (i = 1; i < numberOfPartitions; ++i)
EdgeLoopCond(i, P) == i < P

\* i1 stored one place too early.
EdgeLastIndexShort(P) == 1 + (P - 1) - 1

\* Where i1 is stored: indices[2 + (numberOfPartitions - 1) - 1] = i1
EdgeLastIndex(P) == 2 + (P - 1) - 1

\* The loop: each turn allocates one position object, origin + direction * (i / P),
\* records positions.length in indices[i] and pushes the object.
\* w is [st, list]: the working state and the index list so far.
RECURSIVE EdgeLoop(_, _, _, _, _)
EdgeLoop(w, i, P, origin, direction) ==
    IF ~EdgeLoopCond(i, P) THEN w
    ELSE LET position == NewId(w.st)
         IN  CHOOSE r \in
                 {EdgeLoop(v, i + 1, P, origin, direction) :
                      v \in {[st |-> Push(s, position),
                               list |-> ArraySet(w.list, i, Len(s.positions))] :
                             s \in {Run(w.st,
                                 <<Call("multiplyByScalar", <<direction>>, position, <<i, P>>),
                                   Call("add", <<origin, position>>, position, 0)>>)}}} : TRUE

\* addEdgePositions(i0, i1, numberOfPartitions, positions): [st, list], the working
\* state afterwards and the index list returned.
addEdgePositions(st, i0, i1, P) ==
    LET origin == PositionAt(st, i0)
    IN  CHOOSE r \in
            {EdgeLoop(v, 1, P, origin, scratchDirection) :
                 v \in {[st |-> Run(st, <<Call("subtract", <<PositionAt(st, i1), origin>>,
                                                scratchDirection, 0)>>),
                          list |-> ArraySet(ArraySet(<<>>, 0, i0), EdgeLastIndex(P), i1)]}} : TRUE

\* ------------------------------------------------------ addFaceTriangles

\* The two triangles wound the other way round.
FaceCellClockwise(b, t, k) ==
    <<ArrayGet(b, k), ArrayGet(t, k + 1), ArrayGet(b, k + 1),
      ArrayGet(b, k), ArrayGet(t, k), ArrayGet(t, k + 1)>>

\* The six indices one quad cell pushes: two triangles over bottom row b and top row t.
FaceCell(b, t, k) ==
    <<ArrayGet(b, k), ArrayGet(b, k + 1), ArrayGet(t, k + 1),
      ArrayGet(b, k), ArrayGet(t, k + 1), ArrayGet(t, k)>>

\* for (k = 0; k < numberOfPartitions; ++k) { indices.push(...) x 6 }
RECURSIVE FaceEmit(_, _, _, _, _)
FaceEmit(ind, b, t, k, P) ==
    IF ~(k < P) THEN ind ELSE FaceEmit(ind \o FaceCell(b, t, k), b, t, k + 1, P)

\* The column loop run one turn too far.
FaceColumnCondInclusive(i, P) == i <= P

\* The loop condition of the interior columns: for (i = 1; i < numberOfPartitions; ++i)
FaceColumnCond(i, P) == i < P

\* Cartesian3.add(origin, offsetX, scratchOffsetX): the sum written into a scratch object.
FacePositionInScratch(st) == scratchOffsetX

\* The object Cartesian3.add(origin, offsetX) returns: no result argument is passed,
\* so it is a new one.
FacePositionObject(st) == NewId(st)

\* The interior columns of one row: each turn allocates origin + x*(i/P), adds
\* offsetY to it, records positions.length in topIndicesBuffer[i] and pushes it.
\* w is [st, top]: the working state and topIndicesBuffer.
RECURSIVE FaceColumns(_, _, _, _)
FaceColumns(w, i, P, origin) ==
    IF ~FaceColumnCond(i, P) THEN w
    ELSE LET position == FacePositionObject(w.st)
         IN  CHOOSE r \in
                 {FaceColumns(v, i + 1, P, origin) :
                      v \in {[st |-> Push(s, position),
                               top |-> ArraySet(w.top, i, Len(s.positions))] :
                             s \in {Run(w.st,
                                 <<Call("multiplyByScalar", <<scratchX>>, scratchOffsetX, <<i, P>>),
                                   Call("add", <<origin, scratchOffsetX>>, position, 0),
                                   Call("add", <<position, scratchOffsetY>>, position, 0)>>)}}} : TRUE

\* The rows: for (j = 1; j <= numberOfPartitions; ++j).
\* w is [st, bottom, top]: the working state, bottomIndices and topIndicesBuffer.
RECURSIVE FaceRows(_, _, _, _, _, _, _)
FaceRows(w, j, P, origin, left, right, topLeftToRight) ==
    IF ~(j <= P) THEN w.st
    ELSE LET bottomIndices == IF j # 1 THEN w.top ELSE w.bottom
         IN  IF j # P
             THEN CHOOSE r \in
                      {FaceRows(v, j + 1, P, origin, left, right, topLeftToRight) :
                           v \in {[st |-> [c.st EXCEPT !.indices =
                                               FaceEmit(@, bottomIndices, c.top, 0, P)],
                                    bottom |-> bottomIndices,
                                    top |-> c.top] :
                                  c \in {FaceColumns(
                                      [st |-> Run(w.st, <<Call("multiplyByScalar", <<scratchY>>,
                                                               scratchOffsetY, <<j, P>>)>>),
                                       top |-> ArraySet(ArraySet(w.top, 0, ArrayGet(left, j)),
                                                        P, ArrayGet(right, j))],
                                      1, P, origin)}}} : TRUE
             ELSE CHOOSE r \in
                      {FaceRows(v, j + 1, P, origin, left, right, topLeftToRight) :
                           v \in {[st |-> [w.st EXCEPT !.indices =
                                               FaceEmit(@, bottomIndices, topLeftToRight, 0, P)],
                                    bottom |-> bottomIndices,
                                    top |-> w.top]}} : TRUE

\* addFaceTriangles(leftBottomToTop, bottomLeftToRight, rightBottomToTop,
\* topLeftToRight, numberOfPartitions, positions, indices): the working state afterwards.
addFaceTriangles(st, left, bottom, right, top, P) ==
    LET origin == PositionAt(st, ArrayGet(bottom, 0))
        xEnd == PositionAt(st, ArrayGet(bottom, Len(bottom) - 1))
        yEnd == PositionAt(st, ArrayGet(top, 0))
    IN  CHOOSE r \in
            {FaceRows(v, 1, P, origin, left, right, top) :
                 v \in {[st |-> Run(st, <<Call("subtract", <<xEnd, origin>>, scratchX, 0),
                                           Call("subtract", <<yEnd, origin>>, scratchY, 0)>>),
                          bottom |-> bottom,
                          top |-> <<>>]}} : TRUE

\* ------------------------------------------------------------ the state

VARIABLES
    pc,          \* where the constructor stands: "idle", "edges", "faces", "position",
                 \* "st", "ntb", "finish", "done" or "error" (DeveloperError thrown)
    options,     \* the options of the construction: numberOfPartitions, the radii of
                 \* options.ellipsoid, and the five flags of options.vertexFormat
    positions,   \* var positions: object ids
    heap,        \* the Cartesian3 objects: id -> value
    indices,     \* var indices
    fresh,       \* the scratch objects written since the construction began
    staleRead,   \* a scratch object was read before the construction wrote it
    edges,       \* edge0to1 .. edge3to7, in the order they are created
    faces,       \* the addFaceTriangles calls made: arguments, and the lengths of
                 \* positions and indices when each began
    attributes,  \* var attributes: name -> flat buffer
    geometry,    \* << >>, or <<the fields the constructor set on this>>
    ref,         \* << >>, or <<an earlier construction: its options and its outcome>>
    dracoDecoder, \* var dracoDecoder: 0 while undefined, then the Decoder's id
    skipped,     \* the attribute types given to dracoDecoder.SkipAttributeTransform
    natives,     \* the native Draco objects created so far, by id: what each is, the
                 \* call that created it and how often draco.destroy was given it
    step,        \* where decodeDracoPrimitive stands: "idle", ..., "returned", "thrown"
    parameters,  \* the parameters of the call under way
    frame,       \* the local variables of the call under way (0: undefined)
    result,      \* << >>, or <<what the last call returned>>
    calls        \* the number of decodeDracoPrimitive calls begun

ellipsoidVars == <<pc, options, positions, heap, indices, fresh, staleRead, edges, faces,
                   attributes, geometry, ref>>

dracoVars == <<dracoDecoder, skipped, natives, step, parameters, frame, result, calls>>

vars == <<ellipsoidVars, dracoVars>>

\* The locals of decodeDracoPrimitive, decodeIndexArray and decodeAttributeData
\* before any is set.
NoFrame ==
    [buffer |-> 0, dracoGeometry |-> 0, faceIndices |-> 0, numFaces |-> 0, i |-> 0,
     indexArray |-> <<>>, next |-> 1, attributeData |-> 0, vertexArray |-> "",
     decodedAttributeData |-> <<>>]

NoParameters == [dequantizeInShader |-> FALSE, compressedAttributes |-> <<>>]

\* The worker module is loaded: dracoDecoder is undefined and nothing is created.
DracoInit ==
    /\ dracoDecoder = 0
    /\ skipped = {}
    /\ natives = <<>>
    /\ step = "idle"
    /\ parameters = NoParameters
    /\ frame = NoFrame
    /\ result = <<>>
    /\ calls = 0

\* The ellipsoids a construction is given, by their radii.
RadiiSet == {<<1, 1, 1>>, <<2, 1, 1>>, <<1, 2, 3>>, <<0, 1, 1>>}

VertexFormats == [position : BOOLEAN, st : BOOLEAN, normal : BOOLEAN,
                  tangent : BOOLEAN, binormal : BOOLEAN]

Inputs == [numberOfPartitions : 0..MaxP, radii : RadiiSet, vertexFormat : VertexFormats]

\* The working state of the running construction.
Cur == [positions |-> positions, heap |-> heap, indices |-> indices,
        fresh |-> fresh, stale |-> staleRead]

Init ==
    /\ pc = "idle"
    /\ options = [numberOfPartitions |-> 0, radii |-> <<1, 1, 1>>,
                  vertexFormat |-> [position |-> FALSE, st |-> FALSE, normal |-> FALSE,
                                    tangent |-> FALSE, binormal |-> FALSE]]
    /\ positions = <<>>
    /\ heap = ScratchInit
    /\ indices = <<>>
    /\ fresh = {}
    /\ staleRead = FALSE
    /\ edges = <<>>
    /\ faces = <<>>
    /\ attributes = <<>>
    /\ geometry = <<>>
    /\ ref = <<>>
    /\ DracoInit

\* ------------------------------------------------------- the constructor

\* The check letting zero through.
ValidPartitionsFromZero(P) == ~(P < 0)

\* The check of numberOfPartitions: it throws unless this holds.
ValidPartitions(P) == ~(P <= 0)

\* The eight corners pushed first: p0..p3 in the plane z = -1, p4..p7 in z = 1.
Corners == <<Cartesian3(0 - 1, 0, 0 - 1), Cartesian3(0, 0 - 1, 0 - 1),
             Cartesian3(1, 0, 0 - 1), Cartesian3(0, 1, 0 - 1),
             Cartesian3(0 - 1, 0, 1), Cartesian3(0, 0 - 1, 1),
             Cartesian3(1, 0, 1), Cartesian3(0, 1, 1)>>

RECURSIVE PushCorners(_, _)
PushCorners(st, k) ==
    IF k > Len(Corners) THEN st
    ELSE CHOOSE r \in {PushCorners(v, k + 1) :
                           v \in {Push(Write(st, NewId(st), Corners[k]), NewId(st))}} : TRUE

\* The constructor from its entry to the first addEdgePositions call: the options are
\* read and numberOfPartitions is checked; then positions and indices are created and
\* the corners pushed.  scratch is the heap the module-level objects hold at entry.
Construct(in, scratch) ==
    /\ options' = in
    /\ fresh' = {}
    /\ edges' = <<>>
    /\ faces' = <<>>
    /\ attributes' = <<>>
    /\ geometry' = <<>>
    /\ UNCHANGED staleRead
    /\ UNCHANGED dracoVars
    /\ IF ~ValidPartitions(in.numberOfPartitions)
       THEN /\ pc' = "error"
            /\ positions' = <<>>
            /\ indices' = <<>>
            /\ heap' = scratch
       ELSE \E s \in {PushCorners([positions |-> <<>>, heap |-> scratch, indices |-> <<>>,
                                    fresh |-> {}, stale |-> staleRead], 1)} :
                /\ pc' = "edges"
                /\ positions' = s.positions
                /\ indices' = s.indices
                /\ heap' = s.heap

\* new EllipsoidGeometry(options), the first construction after the module is loaded.
Enter(in) ==
    /\ pc = "idle"
    /\ Construct(in, heap)
    /\ UNCHANGED ref

\* The twelve edges in the order the constructor creates them: <<i0, i1>>.
EdgeEnds == <<<<0, 1>>, <<1, 2>>, <<2, 3>>, <<3, 0>>,
              <<4, 5>>, <<5, 6>>, <<6, 7>>, <<7, 4>>,
              <<0, 4>>, <<1, 5>>, <<2, 6>>, <<3, 7>>>>

\* One addEdgePositions call of the constructor.
AddEdge ==
    /\ pc = "edges"
    /\ \E k \in {Len(edges) + 1} :
       \E r \in {addEdgePositions(Cur, EdgeEnds[k][1], EdgeEnds[k][2],
                                   options.numberOfPartitions)} :
           /\ positions' = r.st.positions
           /\ heap' = r.st.heap
           /\ fresh' = r.st.fresh
           /\ staleRead' = r.st.stale
           /\ edges' = Append(edges, r.list)
           /\ pc' = IF k = Len(EdgeEnds) THEN "faces" ELSE "edges"
    /\ UNCHANGED <<options, indices, faces, attributes, geometry, ref>>
    /\ UNCHANGED dracoVars

\* An edge list as the constructor passes it: as it is, or .slice(0).reverse().
Arg(e, rev) == [e |-> e, rev |-> rev]

\* The Q2 face given edge1to5 where edge0to4 belongs.
FaceCallsWrongEdge ==
    << <<Arg(9, FALSE), Arg(1, FALSE), Arg(10, FALSE), Arg(5, FALSE)>>,
       <<Arg(10, FALSE), Arg(2, FALSE), Arg(11, FALSE), Arg(6, FALSE)>>,
       <<Arg(11, FALSE), Arg(3, FALSE), Arg(12, FALSE), Arg(7, FALSE)>>,
       <<Arg(12, FALSE), Arg(4, FALSE), Arg(10, FALSE), Arg(8, FALSE)>>,
       <<Arg(8, TRUE), Arg(5, FALSE), Arg(6, FALSE), Arg(7, TRUE)>>,
       <<Arg(2, FALSE), Arg(1, TRUE), Arg(4, TRUE), Arg(3, FALSE)>> >>

\* The cap z = 1 given edge7to4 as it is, not reversed.
FaceCallsUnreversed ==
    << <<Arg(9, FALSE), Arg(1, FALSE), Arg(10, FALSE), Arg(5, FALSE)>>,
       <<Arg(10, FALSE), Arg(2, FALSE), Arg(11, FALSE), Arg(6, FALSE)>>,
       <<Arg(11, FALSE), Arg(3, FALSE), Arg(12, FALSE), Arg(7, FALSE)>>,
       <<Arg(12, FALSE), Arg(4, FALSE), Arg(9, FALSE), Arg(8, FALSE)>>,
       <<Arg(8, FALSE), Arg(5, FALSE), Arg(6, FALSE), Arg(7, TRUE)>>,
       <<Arg(2, FALSE), Arg(1, TRUE), Arg(4, TRUE), Arg(3, FALSE)>> >>

\* The six addFaceTriangles calls: left, bottom, right, top, each an edge by its
\* place in EdgeEnds.  Q3, Q4, Q1, Q2, the plane z = 1, the plane z = -1.
FaceCalls ==
    << <<Arg(9, FALSE), Arg(1, FALSE), Arg(10, FALSE), Arg(5, FALSE)>>,
       <<Arg(10, FALSE), Arg(2, FALSE), Arg(11, FALSE), Arg(6, FALSE)>>,
       <<Arg(11, FALSE), Arg(3, FALSE), Arg(12, FALSE), Arg(7, FALSE)>>,
       <<Arg(12, FALSE), Arg(4, FALSE), Arg(9, FALSE), Arg(8, FALSE)>>,
       <<Arg(8, TRUE), Arg(5, FALSE), Arg(6, FALSE), Arg(7, TRUE)>>,
       <<Arg(2, FALSE), Arg(1, TRUE), Arg(4, TRUE), Arg(3, FALSE)>> >>

ArgList(a) == IF a.rev THEN Reverse(edges[a.e]) ELSE edges[a.e]

\* One addFaceTriangles call of the constructor.
AddFace ==
    /\ pc = "faces"
    /\ \E f \in {Len(faces) + 1} :
       \E a \in {[n \in 1..4 |-> ArgList(FaceCalls[f][n])]} :
       \E s \in {addFaceTriangles(Cur, a[1], a[2], a[3], a[4], options.numberOfPartitions)} :
           /\ positions' = s.positions
           /\ heap' = s.heap
           /\ indices' = s.indices
           /\ fresh' = s.fresh
           /\ staleRead' = s.stale
           /\ faces' = Append(faces, [left |-> a[1], bottom |-> a[2],
                                      right |-> a[3], top |-> a[4],
                                      p0 |-> Len(positions), i0 |-> Len(indices)])
           /\ pc' = IF f = Len(FaceCalls) THEN "position" ELSE "faces"
    /\ UNCHANGED <<options, edges, attributes, geometry, ref>>
    /\ UNCHANGED dracoVars

\* ---------------------------------------------------- the attribute passes

\* item.x, item.y, item.z
Flat(v) == <<Scalar(v, 1), Scalar(v, 2), Scalar(v, 3)>>

\* The position pass: each positions[i] is normalized and multiplied by the radii
\* in place (the result argument is the item itself), then flattened.
\* w is [st, values].
PositionBody(w, i, radii) ==
    LET item == PositionAt(w.st, i)
    IN  CHOOSE r \in
            {[st |-> s, values |-> w.values \o Flat(Val(s, item))] :
                 s \in {Run(w.st,
                     <<Call("normalize", <<item>>, item, 0),
                       Call("multiplyComponents", <<item>>, item, Radii(radii)),
                       Call("get", <<item>>, Undefined, 0)>>)}} : TRUE

\* for (i = lo; i < hi; ++i) body: the turns are taken in order, the first half of
\* the range and then the second (halving keeps the evaluation shallow).
RECURSIVE PositionLoop(_, _, _, _)
PositionLoop(w, lo, hi, radii) ==
    IF ~(lo < hi) THEN w
    ELSE IF lo + 1 = hi THEN PositionBody(w, lo, radii)
    ELSE LET mid == (lo + hi) \div 2
         IN  CHOOSE r \in {PositionLoop(v, mid, hi, radii) :
                               v \in {PositionLoop(w, lo, mid, radii)}} : TRUE

\* if (vertexFormat.position) { ... }
PositionPass ==
    /\ pc = "position"
    /\ IF options.vertexFormat.position
       THEN \E w \in {PositionLoop([st |-> Cur, values |-> <<>>], 0, Len(positions),
                                     options.radii)} :
                /\ heap' = w.st.heap
                /\ fresh' = w.st.fresh
                /\ staleRead' = w.st.stale
                /\ attributes' = attributes @@ ("position" :> w.values)
       ELSE UNCHANGED <<heap, fresh, staleRead, attributes>>
    /\ pc' = "st"
    /\ UNCHANGED <<options, positions, indices, edges, faces, geometry, ref>>
    /\ UNCHANGED dracoVars

\* The texture-coordinate pass: sphericalNormal = normalize(positions[i] * oneOverRadii),
\* then atan2(y, x) / (2 pi) + 0.5 and asin(z) / pi + 0.5.
StBody(w, i, radii) ==
    LET item == PositionAt(w.st, i)
    IN  CHOOSE r \in
            {[st |-> s,
              values |-> w.values \o <<Atan2(Val(s, sphericalNormal)),
                                       Asin(Val(s, sphericalNormal))>>] :
                 s \in {Run(w.st,
                     <<Call("multiplyComponents", <<item>>, sphericalNormal, OneOverRadii(radii)),
                       Call("normalize", <<sphericalNormal>>, sphericalNormal, 0),
                       Call("get", <<sphericalNormal>>, Undefined, 0)>>)}} : TRUE

RECURSIVE StLoop(_, _, _, _)
StLoop(w, lo, hi, radii) ==
    IF ~(lo < hi) THEN w
    ELSE IF lo + 1 = hi THEN StBody(w, lo, radii)
    ELSE LET mid == (lo + hi) \div 2
         IN  CHOOSE r \in {StLoop(v, mid, hi, radii) :
                               v \in {StLoop(w, lo, mid, radii)}} : TRUE

\* if (vertexFormat.st) { ... }
StPass ==
    /\ pc = "st"
    /\ IF options.vertexFormat.st
       THEN \E w \in {StLoop([st |-> Cur, values |-> <<>>], 0, Len(positions),
                               options.radii)} :
                /\ heap' = w.st.heap
                /\ fresh' = w.st.fresh
                /\ staleRead' = w.st.stale
                /\ attributes' = attributes @@ ("st" :> w.values)
       ELSE UNCHANGED <<heap, fresh, staleRead, attributes>>
    /\ pc' = "ntb"
    /\ UNCHANGED <<options, positions, indices, edges, faces, geometry, ref>>
    /\ UNCHANGED dracoVars

\* The normal, tangent and binormal pass.  w is [st, normals, tangents, binormals].
NtbBody(w, i, radii) ==
    LET item == PositionAt(w.st, i)
    IN  CHOOSE r \in
            {[st |-> s,
              normals |-> w.normals \o Flat(Val(s, normal)),
              tangents |-> w.tangents \o Flat(Val(s, tangent)),
              binormals |-> w.binormals \o Flat(Val(s, binormal))] :
                 s \in {Run(w.st,
                     <<Call("geodeticSurfaceNormal", <<item>>, normal, radii),
                       Call("crossWith", <<normal>>, tangent, UNIT_Z),
                       Call("cross", <<normal, tangent>>, binormal, 0),
                       Call("get", <<normal, tangent, binormal>>, Undefined, 0)>>)}} : TRUE

RECURSIVE NtbLoop(_, _, _, _)
NtbLoop(w, lo, hi, radii) ==
    IF ~(lo < hi) THEN w
    ELSE IF lo + 1 = hi THEN NtbBody(w, lo, radii)
    ELSE LET mid == (lo + hi) \div 2
         IN  CHOOSE r \in {NtbLoop(v, mid, hi, radii) :
                               v \in {NtbLoop(w, lo, mid, radii)}} : TRUE

\* The pass run only when the normal is requested.
NtbRequestedNormalOnly(vf) == vf.normal

\* if (vertexFormat.normal || vertexFormat.tangent || vertexFormat.binormal)
NtbRequested(vf) == vf.normal \/ vf.tangent \/ vf.binormal

\* The pass, and the three attributes set from it, each under its own flag.
NtbPass ==
    /\ pc = "ntb"
    /\ LET vf == options.vertexFormat
       IN  IF NtbRequested(vf)
           THEN \E w \in {NtbLoop([st |-> Cur, normals |-> <<>>, tangents |-> <<>>,
                                    binormals |-> <<>>], 0, Len(positions),
                                   options.radii)} :
                    /\ heap' = w.st.heap
                    /\ fresh' = w.st.fresh
                    /\ staleRead' = w.st.stale
                    /\ attributes' =
                           [name \in DOMAIN attributes
                                     \cup {n \in {"normal", "tangent", "binormal"} : vf[n]} |->
                               IF name \in DOMAIN attributes THEN attributes[name]
                               ELSE IF name = "normal" THEN w.normals
                               ELSE IF name = "tangent" THEN w.tangents
                               ELSE w.binormals]
           ELSE UNCHANGED <<heap, fresh, staleRead, attributes>>
    /\ pc' = "finish"
    /\ UNCHANGED <<options, positions, indices, edges, faces, geometry, ref>>
    /\ UNCHANGED dracoVars

\* BoundingSphere.fromEllipsoid: centre the origin, radius the largest radius.
BoundingSphere(r) == [center |-> Cartesian3(0, 0, 0), radius |-> Max(Max(r[1], r[2]), r[3])]

\* this.attributes, this.indexLists, this.boundingSphere and this.modelMatrix are set
\* (options.modelMatrix is left out of the inputs: the default, the identity, is stored).
Finish ==
    /\ pc = "finish"
    /\ geometry' = <<[attributes |-> attributes,
                      indexLists |-> <<[primitiveType |-> "TRIANGLES", values |-> indices]>>,
                      boundingSphere |-> BoundingSphere(options.radii),
                      modelMatrix |-> "IDENTITY"]>>
    /\ pc' = "done"
    /\ UNCHANGED <<options, positions, heap, indices, fresh, staleRead, edges, faces,
                   attributes, ref>>
    /\ UNCHANGED dracoVars

\* --------------------------------------------------------- specifications

\* One construction, with every input.
Next ==
    \/ \E in \in Inputs : Enter(in)
    \/ AddEdge
    \/ AddFace
    \/ PositionPass
    \/ StPass
    \/ NtbPass
    \/ Finish

Spec == Init /\ [][Next]_vars

\* Constructions one after another in the same module instance: the scratch objects
\* keep what the construction before left in them, everything else starts anew.
\* The first construction to end is kept in ref, to compare the later ones with.
EnterAgain(in) ==
    /\ pc \in {"done", "error"}
    /\ ref' = IF ref = <<>>
              THEN <<[options |-> options, pc |-> pc, geometry |-> geometry]>>
              ELSE ref
    /\ Construct(in, [id \in ScratchIds |-> heap[id]])

SeqFormats ==
    {vf \in VertexFormats : /\ vf.normal = vf.st
                            /\ vf.tangent = vf.st
                            /\ vf.binormal = vf.st}

SeqInputs == [numberOfPartitions : {1, 2}, radii : {<<1, 1, 1>>, <<2, 1, 1>>},
              vertexFormat : SeqFormats]

NextSeq ==
    \/ \E in \in SeqInputs : Enter(in)
    \/ \E in \in SeqInputs : EnterAgain(in)
    \/ AddEdge
    \/ AddFace
    \/ PositionPass
    \/ StPass
    \/ NtbPass
    \/ Finish

SpecSeq == Init /\ [][NextSeq]_vars

\* ------------------------------------------------------------ decodeDraco

\* new draco.X(): the object is added; its id is its place in the list.
NativeNew(ns, kind, call) == Append(ns, [kind |-> kind, call |-> call, destroyed |-> 0])

\* draco.destroy(object)
NativeDestroy(ns, id) == [ns EXCEPT ![id].destroyed = @ + 1]

\* var attributesToSkip
attributesToSkip == {"POSITION", "NORMAL", "COLOR", "TEX_COORD"}

\* What dracoDecoder.GetEncodedGeometryType(buffer) may answer.
GeometryTypes == {"TRIANGULAR_MESH", "POINT_CLOUD", "INVALID_GEOMETRY_TYPE"}

\* The compressedAttributes objects: their own properties in order, each the unique
\* id of an attribute.
CompressedAttributes == {[k \in 1..n |-> k] : n \in 0..MaxAttributes}

DracoInputs ==
    [dequantizeInShader : BOOLEAN, compressedAttributes : CompressedAttributes]

\* decodeDracoPrimitive from its entry to buffer.Init: the shared decoder is created
\* on the first call, the attribute transforms are skipped if asked, and the
\* DecoderBuffer is created.
DecodeDracoPrimitive(p) ==
    /\ step \in {"idle", "returned", "thrown"}
    /\ calls < MaxCalls
    /\ calls' = calls + 1
    /\ parameters' = p
    /\ \E ns \in {IF dracoDecoder = 0 THEN NativeNew(natives, "Decoder", calls + 1)
                  ELSE natives} :
           /\ dracoDecoder' = IF dracoDecoder = 0 THEN Len(ns) ELSE dracoDecoder
           /\ natives' = NativeNew(ns, "DecoderBuffer", calls + 1)
           /\ frame' = [NoFrame EXCEPT !.buffer = Len(ns) + 1]
    /\ skipped' = IF p.dequantizeInShader THEN skipped \cup attributesToSkip ELSE skipped
    /\ result' = <<>>
    /\ step' = "type"
    /\ UNCHANGED ellipsoidVars

\* The geometry type is read; anything but a triangular mesh throws RuntimeError,
\* and the locals are gone with the call.
GetEncodedGeometryType ==
    /\ step = "type"
    /\ \E geometryType \in GeometryTypes :
           IF geometryType # "TRIANGULAR_MESH"
           THEN /\ step' = "thrown"
                /\ frame' = NoFrame
                /\ parameters' = NoParameters
           ELSE /\ step' = "decode"
                /\ UNCHANGED <<frame, parameters>>
    /\ UNCHANGED <<dracoDecoder, skipped, natives, result, calls>>
    /\ UNCHANGED ellipsoidVars

\* The Mesh is created and the buffer decoded into it; a status that is not ok, or
\* a mesh whose ptr is 0, throws RuntimeError.
DecodeBufferToMesh ==
    /\ step = "decode"
    /\ natives' = NativeNew(natives, "Mesh", calls)
    /\ \E ok \in BOOLEAN, ptr \in {0, 1} :
           IF ~ok \/ ptr = 0
           THEN /\ step' = "thrown"
                /\ frame' = NoFrame
                /\ parameters' = NoParameters
           ELSE /\ step' = "destroyBuffer"
                /\ frame' = [frame EXCEPT !.dracoGeometry = Len(natives) + 1]
                /\ UNCHANGED parameters
    /\ UNCHANGED <<dracoDecoder, skipped, result, calls>>
    /\ UNCHANGED ellipsoidVars

\* draco.destroy(buffer)
DestroyBuffer ==
    /\ step = "destroyBuffer"
    /\ natives' = NativeDestroy(natives, frame.buffer)
    /\ step' = "index"
    /\ UNCHANGED <<dracoDecoder, skipped, parameters, frame, result, calls>>
    /\ UNCHANGED ellipsoidVars

\* decodeIndexArray up to its loop: the face count is read and faceIndices created.
DecodeIndexArray ==
    /\ step = "index"
    /\ \E numFaces \in 0..MaxFaces :
           frame' = [frame EXCEPT !.numFaces = numFaces, !.i = 0,
                                  !.faceIndices = Len(natives) + 1,
                                  !.indexArray = <<>>]
    /\ natives' = NativeNew(natives, "DracoInt32Array", calls)
    /\ step' = "face"
    /\ UNCHANGED <<dracoDecoder, skipped, parameters, result, calls>>
    /\ UNCHANGED ellipsoidVars

\* One turn of the loop: the three indices of face i are copied.
GetFaceFromMesh ==
    /\ step = "face"
    /\ frame.i < frame.numFaces
    /\ frame' = [frame EXCEPT !.i = @ + 1,
                              !.indexArray = @ \o <<[face |-> frame.i, corner |-> 0],
                                                    [face |-> frame.i, corner |-> 1],
                                                    [face |-> frame.i, corner |-> 2]>>]
    /\ UNCHANGED <<dracoDecoder, skipped, natives, step, parameters, result, calls>>
    /\ UNCHANGED ellipsoidVars

\* The loop is over: faceIndices is destroyed and the index array returned.
DecodeIndexArrayReturn ==
    /\ step = "face"
    /\ ~(frame.i < frame.numFaces)
    /\ natives' = NativeDestroy(natives, frame.faceIndices)
    /\ frame' = [frame EXCEPT !.faceIndices = 0]
    /\ step' = "attributes"
    /\ UNCHANGED <<dracoDecoder, skipped, parameters, result, calls>>
    /\ UNCHANGED ellipsoidVars

\* decodeAttributeData, the next own property of compressedAttributes: by the data
\* type of the attribute a DracoInt32Array (4) or a DracoFloat32Array is created and
\* filled.
GetAttribute ==
    /\ step = "attributes"
    /\ frame.next <= Len(parameters.compressedAttributes)
    /\ \E data_type \in {4, 9} :
           /\ natives' = NativeNew(natives, IF data_type = 4 THEN "DracoInt32Array"
                                            ELSE "DracoFloat32Array", calls)
           /\ frame' = [frame EXCEPT !.attributeData = Len(natives) + 1,
                                     !.vertexArray = IF data_type = 4 THEN "Uint16Array"
                                                     ELSE "Float32Array"]
    /\ step' = "attributeData"
    /\ UNCHANGED <<dracoDecoder, skipped, parameters, result, calls>>
    /\ UNCHANGED ellipsoidVars

\* The values are copied, attributeData is destroyed and the attribute's entry is set.
CopyAttribute ==
    /\ step = "attributeData"
    /\ natives' = NativeDestroy(natives, frame.attributeData)
    /\ frame' = [frame EXCEPT !.attributeData = 0,
                              !.decodedAttributeData =
                                  Append(@, [attribute |-> parameters.compressedAttributes[frame.next],
                                             array |-> frame.vertexArray,
                                             quantization |-> "none"])]
    /\ step' = "quantization"
    /\ UNCHANGED <<dracoDecoder, skipped, parameters, result, calls>>
    /\ UNCHANGED ellipsoidVars

\* new draco.AttributeQuantizationTransform(); if it initializes from the attribute
\* the quantization is recorded; it is destroyed.
QuantizationTransform ==
    /\ step = "quantization"
    /\ natives' = NativeDestroy(NativeNew(natives, "AttributeQuantizationTransform", calls),
                                Len(natives) + 1)
    /\ \E init \in BOOLEAN :
           frame' = IF init
                    THEN [frame EXCEPT !.decodedAttributeData[frame.next].quantization =
                                           "quantized"]
                    ELSE frame
    /\ step' = "octahedron"
    /\ UNCHANGED <<dracoDecoder, skipped, parameters, result, calls>>
    /\ UNCHANGED ellipsoidVars

\* The same with new draco.AttributeOctahedronTransform(); then the next property.
OctahedronTransform ==
    /\ step = "octahedron"
    /\ natives' = NativeDestroy(NativeNew(natives, "AttributeOctahedronTransform", calls),
                                Len(natives) + 1)
    /\ \E init \in BOOLEAN :
           frame' = [(IF init
                      THEN [frame EXCEPT !.decodedAttributeData[frame.next].quantization =
                                             "octEncoded"]
                      ELSE frame) EXCEPT !.next = @ + 1]
    /\ step' = "attributes"
    /\ UNCHANGED <<dracoDecoder, skipped, parameters, result, calls>>
    /\ UNCHANGED ellipsoidVars

\* Every property is done: decodeAttributeData returns, the mesh is destroyed and
\* the result returned.
ReturnResult ==
    /\ step = "attributes"
    /\ ~(frame.next <= Len(parameters.compressedAttributes))
    /\ natives' = NativeDestroy(natives, frame.dracoGeometry)
    /\ result' = <<[indexArray |-> [typedArray |-> frame.indexArray,
                                    numberOfIndices |-> frame.numFaces * 3],
                    attributeData |-> frame.decodedAttributeData]>>
    /\ frame' = NoFrame
    /\ parameters' = NoParameters
    /\ step' = "returned"
    /\ UNCHANGED <<dracoDecoder, skipped, calls>>
    /\ UNCHANGED ellipsoidVars

\* The worker: decodeDracoPrimitive called again and again.
NextDraco ==
    \/ \E p \in DracoInputs : DecodeDracoPrimitive(p)
    \/ GetEncodedGeometryType
    \/ DecodeBufferToMesh
    \/ DestroyBuffer
    \/ DecodeIndexArray
    \/ GetFaceFromMesh
    \/ DecodeIndexArrayReturn
    \/ GetAttribute
    \/ CopyAttribute
    \/ QuantizationTransform
    \/ OctahedronTransform
    \/ ReturnResult

SpecDraco == Init /\ [][NextDraco]_vars

\* ------------------------------------------------------------ properties

Partitions == options.numberOfPartitions

\* The six faces are done and the attribute passes may have run.
FacesDone == pc \in {"position", "st", "ntb", "finish", "done"}

\* C1: once the twelve edges and the six faces are built, the position list holds
\* 8 + 12(P-1) + 6(P-1)^2 entries and the index buffer 36 P^2, whatever the ellipsoid.
C1_Counts ==
    FacesDone =>
        /\ Len(positions) = 8 + 12 * (Partitions - 1) + 6 * (Partitions - 1) * (Partitions - 1)
        /\ Len(indices) = 36 * Partitions * Partitions

C1_Witness ==
    /\ pc = "position"
    /\ Partitions = 2
    /\ Len(edges) = 12
    /\ Len(faces) = 6
    /\ Len(positions) = 26

NothingProduced ==
    /\ positions = <<>>
    /\ indices = <<>>
    /\ DOMAIN attributes = {}
    /\ geometry = <<>>

\* C2 as stated: a partition count <= 0 or any radius <= 0 makes the construction
\* fail before anything is allocated, and nothing is produced.
C2_Original ==
    (pc # "idle" /\ (Partitions <= 0 \/ \E k \in 1..3 : options.radii[k] <= 0))
        => (pc = "error" /\ NothingProduced)

\* C2 amended: the construction fails exactly when the partition count is <= 0, then
\* before positions and indices are allocated and with nothing produced; the radii of
\* the ellipsoid are not checked.
C2_PartitionsOnly ==
    pc # "idle" =>
        /\ (pc = "error") <=> (Partitions <= 0)
        /\ (pc = "error") => NothingProduced

C2_Witness ==
    /\ pc = "error"
    /\ Partitions <= 0
    /\ options.radii = <<2, 1, 1>>

\* The attributes other than position that both constructions were asked for agree.
Agree(g, h) ==
    \A a \in ((DOMAIN g.attributes) \cap (DOMAIN h.attributes)) \ {"position"} :
        g.attributes[a] = h.attributes[a]

\* C3: texture coordinates, normals, tangents and binormals do not depend on whether
\* the position attribute is requested too: two constructions that differ in that
\* flag alone produce the same values for them.
C3_SameWithoutPosition ==
    (/\ pc = "done"
     /\ ref # <<>>
     /\ ref[1].pc = "done"
     /\ ref[1].options.numberOfPartitions = Partitions
     /\ ref[1].options.radii = options.radii
     /\ \A a \in {"st", "normal", "tangent", "binormal"} :
            ref[1].options.vertexFormat[a] = options.vertexFormat[a])
        => Agree(ref[1].geometry[1], geometry[1])

\* C6: no scratch object is read before the running construction wrote it, no entry
\* of the position list is a scratch object, and a construction given the options of
\* an earlier one ends as that one did, with the same buffers, whatever ran between.
C6_Reentrant ==
    /\ ~staleRead
    /\ \A k \in 1..Len(positions) : positions[k] \notin ScratchIds
    /\ (ref # <<>> /\ pc \in {"done", "error"} /\ ref[1].options = options)
           => (ref[1].pc = pc /\ ref[1].geometry = geometry)

\* A construction that ran after two others, the first with the same options and the
\* one between with a different partition count, and its texture coordinates done.
C6_Witness ==
    /\ pc = "done"
    /\ ref # <<>>
    /\ ref[1].options = options
    /\ Partitions = 2
    /\ options.radii = <<2, 1, 1>>
    /\ options.vertexFormat.st
    /\ heap[scratchOffsetY] # Cartesian3(0, 0, 0)
    /\ fresh = ScratchIds

\* --------------------------------------------------- the mesh, in cube space

\* The value of positions[k], k counted from 0.
PosVal(k) == heap[positions[k + 1]]

\* The construction is under way and the position objects still hold cube-space
\* points: the position pass has not run, or position is not requested.
CubeSpace ==
    \/ pc \in {"edges", "faces", "position"}
    \/ pc \in {"st", "ntb", "finish", "done"} /\ ~options.vertexFormat.position

Range(f) == {f[k] : k \in DOMAIN f}

\* The number of triangles in the index buffer, and the t-th of them.
NumTriangles == Len(indices) \div 3
Triangle(t) == <<indices[3 * t - 2], indices[3 * t - 1], indices[3 * t]>>

\* The point v lies on the segment between the corners of cube edge e.
OnEdge(v, e) ==
    LET a == Corners[EdgeEnds[e][1] + 1].n
        b == Corners[EdgeEnds[e][2] + 1].n
        d == Isqrt(v.q)
        u == [c \in 1..3 |-> v.n[c] - d * a[c]]
        w == [c \in 1..3 |-> b[c] - a[c]]
        uw == u[1] * w[1] + u[2] * w[2] + u[3] * w[3]
        ww == w[1] * w[1] + w[2] * w[2] + w[3] * w[3]
    IN  /\ d > 0
        /\ u[2] * w[3] - u[3] * w[2] = 0
        /\ u[3] * w[1] - u[1] * w[3] = 0
        /\ u[1] * w[2] - u[2] * w[1] = 0
        /\ 0 <= uw
        /\ uw <= d * ww

\* The indices face f pushed: from where it began to where the next one began.
FaceIndexEnd(f) == IF f < Len(faces) THEN faces[f + 1].i0 ELSE Len(indices)
FacePositionEnd(f) == IF f < Len(faces) THEN faces[f + 1].p0 ELSE Len(positions)
FaceUsed(f) == {indices[m] : m \in (faces[f].i0 + 1)..FaceIndexEnd(f)}

FaceSide(f, s) ==
    IF s = 1 THEN faces[f].left ELSE IF s = 2 THEN faces[f].bottom
    ELSE IF s = 3 THEN faces[f].right ELSE faces[f].top

\* C4: each of the twelve edge lists is created once and given, as it is or
\* reversed, to exactly two of the six addFaceTriangles calls; along that cube edge a
\* face's triangles use exactly the indices of that list, and the only positions
\* lying on a cube edge are those of its list (no face appends one).
C4_SharedEdges ==
    (CubeSpace /\ pc # "edges") =>
        /\ Len(edges) = 12
        /\ \A e \in 1..12 :
               /\ Cardinality({f \in 1..6 : \E s \in 1..4 : FaceCalls[f][s].e = e}) = 2
               /\ {k \in 0..(Len(positions) - 1) : OnEdge(PosVal(k), e)} = Range(edges[e])
        /\ \A f \in 1..Len(faces) :
               /\ \A s \in 1..4 :
                      LET e == FaceCalls[f][s].e
                      IN  /\ FaceSide(f, s) \in {edges[e], Reverse(edges[e])}
                          /\ {k \in FaceUsed(f) : OnEdge(PosVal(k), e)} = Range(edges[e])
               /\ \A k \in faces[f].p0..(FacePositionEnd(f) - 1) :
                      \A e \in 1..12 : ~OnEdge(PosVal(k), e)

C4_Witness ==
    /\ pc = "position"
    /\ Partitions = 3
    /\ Len(faces) = 6
    /\ edges[8] = <<7, 22, 23, 4>>
    /\ faces[5].left = <<4, 23, 22, 7>>

Det3(a, b, c) ==
    a[1] * (b[2] * c[3] - b[3] * c[2])
  - a[2] * (b[1] * c[3] - b[3] * c[1])
  + a[3] * (b[1] * c[2] - b[2] * c[1])

\* The triangles of the index buffer all have det[pos(a), pos(b), pos(c)] > 0.  The
\* sign of the determinant is that of the numerators, every q being positive.
AllOutward ==
    \A t \in 1..NumTriangles :
        LET tri == Triangle(t)
        IN  Det3(PosVal(tri[1]).n, PosVal(tri[2]).n, PosVal(tri[3]).n) > 0

\* C5 as stated, for every ellipsoid the constructor accepts: every triangle of the
\* index buffer has a strictly positive signed volume against the origin.
C5_Original ==
    pc \notin {"idle", "error"} => AllOutward

\* C5: every triangle (a, b, c) of the index buffer has det[pos(a), pos(b), pos(c)] > 0,
\* it is wound counter-clockwise seen from outside: of the cube-space points always,
\* and of the scaled points the position pass leaves when every radius is positive.
C5_Winding ==
    (pc \notin {"idle", "error"} /\ (CubeSpace \/ \A k \in 1..3 : options.radii[k] > 0)) =>
        AllOutward

C5_Witness ==
    /\ pc = "done"
    /\ Partitions = 2
    /\ options.radii = <<1, 2, 3>>
    /\ options.vertexFormat.position
    /\ NumTriangles = 48

\* v = ((Partitions - i) * o + i * t) / Partitions, for integer points o and t.
IsLerp(v, o, t, i) ==
    LET d == Isqrt(v.q)
    IN  /\ d > 0
        /\ \A c \in 1..3 : Partitions * v.n[c] = d * ((Partitions - i) * o[c] + i * t[c])

\* C7: addEdgePositions(i0, i1, P, positions) returns P + 1 indices, the first i0, the
\* last i1, those between the indices of the P - 1 positions it appended, in order,
\* the i-th being origin + (dest - origin) * (i / P); what the list held is unchanged.
C7_EdgeList ==
    (CubeSpace) =>
        /\ pc = "edges" => Len(positions) = 8 + Len(edges) * (Partitions - 1)
        /\ \A c \in 1..8 : PosVal(c - 1) = Corners[c]
        /\ \A k \in 1..Len(edges) :
               LET list == edges[k]
                   i0 == EdgeEnds[k][1]
                   i1 == EdgeEnds[k][2]
               IN  /\ Len(list) = Partitions + 1
                   /\ list[1] = i0
                   /\ list[Partitions + 1] = i1
                   /\ \A i \in 1..(Partitions - 1) :
                          /\ list[i + 1] = 8 + (k - 1) * (Partitions - 1) + (i - 1)
                          /\ IsLerp(PosVal(list[i + 1]), Corners[i0 + 1].n, Corners[i1 + 1].n, i)

C7_Witness ==
    /\ pc = "edges"
    /\ Partitions = 3
    /\ Len(edges) = 5
    /\ edges[5] = <<4, 16, 17, 5>>
    /\ Len(positions) = 18

Components(a) == IF a = "st" THEN 2 ELSE 3

\* C8: the attributes object has a property for exactly the flags that are true, and
\* each buffer holds (number of positions) x components values, 2 for st and 3 for
\* position, normal, tangent and binormal.
C8_Attributes ==
    pc = "done" =>
        LET a == geometry[1].attributes
        IN  /\ DOMAIN a = {name \in DOMAIN options.vertexFormat : options.vertexFormat[name]}
            /\ \A name \in DOMAIN a : Len(a[name]) = Len(positions) * Components(name)

C8_Witness ==
    /\ pc = "done"
    /\ Partitions = 2
    /\ DOMAIN geometry[1].attributes = {"st", "tangent"}
    /\ Len(geometry[1].attributes["st"]) = 52
    /\ Len(geometry[1].attributes["tangent"]) = 78

\* Row j of face f as C9 describes it.
FaceRow(f, j) ==
    IF j = 0 THEN faces[f].bottom
    ELSE IF j = Partitions THEN faces[f].top
    ELSE <<faces[f].left[j + 1]>>
         \o [i \in 1..(Partitions - 1) |->
                faces[f].p0 + (j - 1) * (Partitions - 1) + (i - 1)]
         \o <<faces[f].right[j + 1]>>

\* C9: addFaceTriangles works on P + 1 rows: the bottom list, the top list, and
\* between them leftEdge[j], then P - 1 appended positions origin + x*(i/P) + y*(j/P),
\* then rightEdge[j]; for each j in 1..P and k in 0..P-1 it pushes the triangles
\* (row[j-1][k], row[j-1][k+1], row[j][k+1]) and (row[j-1][k], row[j][k+1], row[j][k]).
C9_FaceRows ==
    (pc \notin {"idle", "error", "edges"}) =>
        \A f \in 1..Len(faces) :
            /\ FaceIndexEnd(f) - faces[f].i0 = 6 * Partitions * Partitions
            /\ FacePositionEnd(f) - faces[f].p0 = (Partitions - 1) * (Partitions - 1)
            /\ \A j \in 0..Partitions : Len(FaceRow(f, j)) = Partitions + 1
            /\ \A j \in 1..Partitions : \A k \in 0..(Partitions - 1) :
                   LET base == faces[f].i0 + 6 * ((j - 1) * Partitions + k)
                       lo == FaceRow(f, j - 1)
                       hi == FaceRow(f, j)
                   IN  [m \in 1..6 |-> indices[base + m]] =
                           <<lo[k + 1], lo[k + 2], hi[k + 2], lo[k + 1], hi[k + 2], hi[k + 1]>>
            /\ CubeSpace =>
                   \A j \in 1..(Partitions - 1) : \A i \in 1..(Partitions - 1) :
                       LET v == PosVal(FaceRow(f, j)[i + 1])
                           o == PosVal(faces[f].bottom[1]).n
                           x == PosVal(faces[f].bottom[Partitions + 1]).n
                           y == PosVal(faces[f].top[1]).n
                           d == Isqrt(v.q)
                       IN  /\ d > 0
                           /\ \A c \in 1..3 :
                                  Partitions * v.n[c] =
                                      d * (Partitions * o[c] + i * (x[c] - o[c]) + j * (y[c] - o[c]))

C9_Witness ==
    /\ pc = "faces"
    /\ Partitions = 3
    /\ Len(faces) = 5
    /\ Len(positions) = 52
    /\ Len(indices) = 270

\* The directed edges of the triangles.
DirectedEdges ==
    UNION {LET tri == Triangle(t)
           IN  {<<tri[1], tri[2]>>, <<tri[2], tri[3]>>, <<tri[3], tri[1]>>} :
           t \in 1..NumTriangles}

\* C10: the index buffer describes a closed, consistently oriented surface: every
\* index is that of a position, a triangle has three distinct indices, a directed edge
\* (a, b) occurs in exactly one triangle and (b, a) in exactly one other.
C10_Closed ==
    FacesDone =>
        LET de == DirectedEdges
        IN  /\ \A m \in 1..Len(indices) : indices[m] \in 0..(Len(positions) - 1)
            /\ \A t \in 1..NumTriangles :
                   Cardinality({Triangle(t)[1], Triangle(t)[2], Triangle(t)[3]}) = 3
            /\ Cardinality(de) = 3 * NumTriangles
            /\ {<<e[2], e[1]>> : e \in de} = de

C10_Witness ==
    /\ pc = "done"
    /\ Partitions = 3
    /\ NumTriangles = 108
    /\ Cardinality(DirectedEdges) = 324

\* --------------------------------------------------- the native Draco objects

\* C11: when a decodeDracoPrimitive call has finished, by returning or by throwing
\* RuntimeError, every native object a call created (DecoderBuffer, Mesh, value
\* arrays, transforms) has been destroyed exactly once, and the shared decoder, the
\* only object still allocated, never.
C11_DestroyedOnce ==
    step \in {"returned", "thrown"} =>
        \A id \in 1..Len(natives) :
            natives[id].destroyed = IF id = dracoDecoder THEN 0 ELSE 1

====
